---------------------------- MODULE Spec2Model ----------------------------
(***************************************************************************)
(* Model of the request dispatcher of packages/serverless/src/main.rs:     *)
(* handle_request, the Affinity Map (thread_ids), the Catalog              *)
(* (deployments), the process-wide isolate table (ISOLATES), the three     *)
(* tokio RwLocks that guard them and the pinned worker pool.               *)
(* The Catalog Subscriber (crate::deployments::pubsub) is not part of the  *)
(* source at hand and is modelled from the specification.                  *)
(***************************************************************************)
EXTENDS Integers, Sequences, FiniteSets, Bags, TLC

(* ------------------------------ bounds -------------------------------- *)

\* Number of HTTP requests handled in one behaviour.
NumRequests == 2

\* Number of worker threads of the pool. The source sets 8 (main.rs:41); the
\* model runs a smaller pool, every index of which is drawn and used.
POOL_SIZE == 2

\* Number of control messages the Catalog Subscriber consumes.
MaxEvents == 1

(* ------------------------------ inputs -------------------------------- *)

\* Absence of the Host header: headers.get("host") returns None.
NoHost == "<none>"

\* Hostnames installed in the Catalog at startup.
Hostnames == {"a.example", "b.example"}

\* A hostname no deployment ever holds.
UnknownHost == "unknown.example"

RequestHosts == Hostnames \cup {UnknownHost, NoHost}

\* Request targets, as sequences of characters: the first is the separator.
Uris == {<<"/", "logo.png">>, <<"/", "api">>}

\* The requests that arrive: every kind of hostname, and both targets for
\* the hostname whose deployment has assets.
RequestInputs ==
    { i \in RequestHosts \X Uris :
        i[1] = "a.example" \/ i[2] = <<"/", "api">> }

ThreadIndexes == 0 .. (POOL_SIZE - 1)

Requests == 1 .. NumRequests

(* --------------------------- deployments ------------------------------ *)

\* The descriptor installed for a hostname at startup (get_deployments).
InitialDeployment(h) ==
    [ id                    |-> <<h, 0>>,
      function_id           |-> <<"fn", h>>,
      assets                |-> IF h = "a.example" THEN {<<"logo.png">>} ELSE {},
      code_key              |-> 1,
      environment_variables |-> {},
      memory                |-> 128,
      timeout               |-> 50 ]

\* The fields an Update may change and that an isolate captures.
IsolateFields == {"code_key", "environment_variables", "memory", "timeout"}

\* The descriptor an Update event carries: a new deployment id and one
\* isolate-relevant field changed.
UpdatedDeployment(d, f, n) ==
    [ d EXCEPT
        !.id                    = <<d.id[1], n>>,
        !.code_key              = IF f = "code_key" THEN @ + 1 ELSE @,
        !.environment_variables = IF f = "environment_variables"
                                  THEN @ \cup {<<"KEY", n>>} ELSE @,
        !.memory                = IF f = "memory" THEN @ * 2 ELSE @,
        !.timeout               = IF f = "timeout" THEN @ * 2 ELSE @ ]

(* ------------------------------ state --------------------------------- *)

VARIABLES
    thread_ids,         \* Affinity Map: set of <<hostname, thread index>> entries
    thread_ids_lock,    \* RwLock around thread_ids
    deployments,        \* Catalog: function hostname -> descriptor
    deployments_lock,   \* RwLock around deployments
    ISOLATES,           \* isolate table: [keys, entries]
    ISOLATES_lock,      \* RwLock around ISOLATES
    constructed,        \* number of Isolate::new calls so far
    dispatch,           \* per worker thread: tasks posted and not yet started
    req,                \* per request: its position, locals and history
    metrics,            \* the metrics sink
    sub,                \* Catalog Subscriber: its position and current event
    evicted             \* history: evictions executed per <<thread, hostname>>

vars == << thread_ids, thread_ids_lock, deployments, deployments_lock,
           ISOLATES, ISOLATES_lock, constructed, dispatch, req, metrics,
           sub, evicted >>

(* --------------------------- tokio RwLock ----------------------------- *)

\* Process identities that take locks.
ReqProc(r) == <<"req", r, 0>>
SubProc == <<"sub", 0, 0>>
EvictProc(n, t) == <<"evict", n, t>>

FreeLock == [ readers |-> {}, writer |-> {}, queue |-> <<>> ]

\* read().await / write().await: join the FIFO queue of the lock.
Enqueue(l, p, mode) ==
    [ l EXCEPT !.queue = Append(@, [ p |-> p, mode |-> mode ]) ]

\* Variant of CanGrant: a writer is served while shared views are held.
CanGrantOverReaders(l, p) ==
    /\ l.queue # <<>>
    /\ Head(l.queue).p = p
    /\ l.writer = {}

\* The head of the queue is served as soon as it is compatible with the
\* holders; waiters behind a waiting writer wait (write-preferring, fair).
CanGrant(l, p) ==
    /\ l.queue # <<>>
    /\ Head(l.queue).p = p
    /\ l.writer = {}
    /\ Head(l.queue).mode = "write" => l.readers = {}

\* Variant of Grant: the served waiter leaves the queue and holds nothing.
GrantUnheld(l) == [ l EXCEPT !.queue = Tail(@) ]

\* The head of the queue becomes a holder of the lock.
Grant(l) ==
    LET h == Head(l.queue) IN
    [ l EXCEPT !.queue   = Tail(@),
               !.readers = IF h.mode = "read" THEN @ \cup {h.p} ELSE @,
               !.writer  = IF h.mode = "write" THEN {h.p} ELSE @ ]

\* Dropping a guard.
Release(l, p) ==
    [ l EXCEPT !.readers = @ \ {p}, !.writer = @ \ {p} ]

\* Variant of DropReader: the shared view is kept while exclusive access is
\* awaited.
KeepReader(l, p) == l

\* drop(thread_ids_reader) before thread_ids.write().await
DropReader(l, p) == Release(l, p)

\* Variant of PostTask: the newest task is started first.
PostTaskFront(q, task) == <<task>> \o q

\* The channel of a worker thread: tasks are started in the order posted.
PostTask(q, task) == Append(q, task)


(* ------------------------- pieces of the handler ---------------------- *)

\* url.remove(0): the target without its leading separator.
StripLeading(uri) == Tail(uri)

\* thread_ids_reader.get(&hostname)
Bound(m, h) == \E e \in m : e[1] = h

BoundIndex(m, h) == (CHOOSE e \in m : e[1] = h)[2]

\* rng.gen_range(0..POOL_SIZE): the indexes a draw may yield.
DrawThreadIndex == ThreadIndexes

\* HashMap::insert(hostname, id): the entry of the key is replaced.
InsertBinding(m, h, id) == { e \in m : e[1] # h } \cup { <<h, id>> }

\* Variant of AssetMatch: the target is compared with its separator kept.
AssetMatchUnstripped(d, url) == (<<"/">> \o url) \in d.assets

\* deployment.assets.iter().find(|asset| *asset == &url)
AssetMatch(d, url) == url \in d.assets

\* handle_asset(deployment, asset), when it succeeds: the blob of the asset.
AssetResponse(d, asset) ==
    [ status |-> 200, body |-> <<"asset", d.id, asset>> ]

\* get_deployment_code(deployment), when it succeeds.
DeploymentCode(d) == <<"code", d.code_key>>

\* IsolateOptions::new(code).with_environment_variables(..).with_memory(..)
\*   .with_timeout(..)
IsolateOptions(d) ==
    [ code                  |-> DeploymentCode(d),
      environment_variables |-> d.environment_variables,
      memory                |-> d.memory,
      timeout               |-> d.timeout ]

\* The labels of the metrics of a request.
Labels(d) == [ deployment |-> d.id, function |-> d.function_id ]

\* counter!(name, n, labels)
Count(bag, labels, n) ==
    IF n = 0 THEN bag ELSE bag (+) [ l \in {labels} |-> n ]

\* increment_counter!("lagon_requests") and counter!("lagon_bytes_in").
RecordRequest(m, labels, len) ==
    [ m EXCEPT !.lagon_requests = Count(@, labels, 1),
               !.lagon_bytes_in = Count(@, labels, len) ]

\* Variant of MetricsAfterLookup: the request is counted before the lookup
\* is decided.
MetricsBeforeLookup(m, hit, labels, len) == RecordRequest(m, labels, len)

\* The metrics after the Catalog lookup: only a resolved deployment counts.
MetricsAfterLookup(m, hit, labels, len) ==
    IF hit THEN RecordRequest(m, labels, len) ELSE m

\* Variant of RecordRun: bytes-out is counted for every outcome of the run.
RecordRunAnyOutcome(m, labels, result, stats) ==
    [ m EXCEPT
        !.lagon_isolate_cpu_time     = Count(@, labels, IF stats THEN 1 ELSE 0),
        !.lagon_isolate_memory_usage = Count(@, labels, IF stats THEN 1 ELSE 0),
        !.lagon_bytes_out            =
            IF result.kind = "Response"
            THEN Count(@, labels, Len(result.response.body))
            ELSE Count(@, labels, 1) ]

\* histogram!(..) twice when the run reports statistics, and
\* counter!("lagon_bytes_out") when it returns a Response.
RecordRun(m, labels, result, stats) ==
    [ m EXCEPT
        !.lagon_isolate_cpu_time     = Count(@, labels, IF stats THEN 1 ELSE 0),
        !.lagon_isolate_memory_usage = Count(@, labels, IF stats THEN 1 ELSE 0),
        !.lagon_bytes_out            =
            IF result.kind = "Response"
            THEN Count(@, labels, Len(result.response.body)) ELSE @ ]

\* Variant of WithThread: thread indexes counted from one.
WithThreadFromOne(keys, t) == keys \cup {t + 1}

\* isolates.entry(thread_id).or_insert_with(HashMap::new)
WithThread(keys, t) == keys \cup {t}

HasIsolate(entries, t, h) ==
    \E e \in entries : e.thread = t /\ e.hostname = h

IsolateOf(entries, t, h) ==
    (CHOOSE e \in entries : e.thread = t /\ e.hostname = h).isolate

\* Variant of IsVacant: the table is never consulted.
IsVacantAlways(entries, t, h) == TRUE

\* thread_isolates.entry(hostname): vacant when the hostname has no isolate.
IsVacant(entries, t, h) == ~HasIsolate(entries, t, h)

\* or_insert_with(..) on a vacant entry: the new isolate is stored.
InsertIsolate(entries, t, h, isolate) ==
    entries \cup {[ thread |-> t, hostname |-> h, isolate |-> isolate ]}

\* Variant of IsolatesAfterRun: an isolate that timed out is dropped.
IsolatesDroppedOnTimeout(table, t, h, result) ==
    IF result.kind = "Timeout"
    THEN [ table EXCEPT
             !.entries = { e \in @ : ~(e.thread = t /\ e.hostname = h) } ]
    ELSE table

\* The isolate table once isolate.run(request) has returned: the match on
\* the result records metrics and touches no entry.
IsolatesAfterRun(table, t, h, result) == table

\* The results isolate.run(request) may return.
RunResults ==
    { [ kind |-> "Response", response |-> [ status |-> 200, body |-> <<"h", "i">> ] ],
      [ kind |-> "Error", message |-> <<"boom">> ],
      [ kind |-> "Timeout" ],
      [ kind |-> "MemoryLimit" ] }

NotFound == [ kind |-> "NotFound" ]

\* The JoinError of a pinned task that panicked; not a RunResult.
JoinError == [ kind |-> "JoinError" ]

NoResponse == [ status |-> 0, body |-> <<>> ]

\* response_to_hyper_response(response)
response_to_hyper_response(r) == [ status |-> r.status, body |-> r.body ]

\* Variant of Marshal: a timeout answered as 504.
MarshalTimeout504(result) ==
    CASE result.kind = "Response"    -> response_to_hyper_response(result.response)
      [] result.kind = "Error"       -> [ status |-> 500, body |-> result.message ]
      [] result.kind = "Timeout"     -> [ status |-> 504, body |-> <<"Timeouted">> ]
      [] result.kind = "MemoryLimit" -> [ status |-> 200, body |-> <<"MemoryLimited">> ]
      [] result.kind = "NotFound"    -> [ status |-> 404, body |-> <<"Deployment not found">> ]

\* match result { .. }: the HTTP response of a RunResult.
Marshal(result) ==
    CASE result.kind = "Response"    -> response_to_hyper_response(result.response)
      [] result.kind = "Error"       -> [ status |-> 500, body |-> result.message ]
      [] result.kind = "Timeout"     -> [ status |-> 200, body |-> <<"Timeouted">> ]
      [] result.kind = "MemoryLimit" -> [ status |-> 200, body |-> <<"MemoryLimited">> ]
      [] result.kind = "NotFound"    -> [ status |-> 404, body |-> <<"Deployment not found">> ]

(* ------------------------------ Init ---------------------------------- *)

NoDeployment == [ id |-> <<>>, function_id |-> <<>> ]

IdleRequest ==
    [ pc         |-> "idle",
      host       |-> NoHost,
      uri        |-> <<>>,
      len        |-> 0,
      thread_id  |-> 0,
      worker     |-> 0,
      deployment |-> NoDeployment,
      result     |-> [ kind |-> "none" ],
      response   |-> NoResponse,
      \* history of the request
      drew       |-> FALSE,
      found      |-> "none",
      counted    |-> 0,
      built      |-> 0,
      ran        |-> 0,
      loadfail   |-> FALSE,
      epoch      |-> 0,
      earlier    |-> {},
      after      |-> {} ]

EmptyMetrics ==
    [ lagon_requests             |-> EmptyBag,
      lagon_bytes_in             |-> EmptyBag,
      lagon_bytes_out            |-> EmptyBag,
      lagon_isolate_cpu_time     |-> EmptyBag,
      lagon_isolate_memory_usage |-> EmptyBag ]

IdleSubscriber == [ pc |-> "idle", kind |-> "none", hostname |-> NoHost,
                    field |-> "none", events |-> 0 ]

Init ==
    /\ thread_ids = {}
    /\ thread_ids_lock = FreeLock
    /\ deployments = [ h \in Hostnames |-> InitialDeployment(h) ]
    /\ deployments_lock = FreeLock
    /\ ISOLATES = [ keys |-> {}, entries |-> {} ]
    /\ ISOLATES_lock = FreeLock
    /\ constructed = 0
    /\ dispatch = [ t \in ThreadIndexes |-> <<>> ]
    /\ req = [ r \in Requests |-> IdleRequest ]
    /\ metrics = EmptyMetrics
    /\ sub = IdleSubscriber
    /\ evicted = [ k \in ThreadIndexes \X Hostnames |-> 0 ]

(* --------------------------- handle_request --------------------------- *)

\* A request arrives: its target is stripped and its Host header is read
\* with unwrap(), which panics when the header is absent; otherwise the
\* handler asks for the shared view of the Affinity Map.
Receive(r) ==
    /\ req[r].pc = "idle"
    /\ \A q \in Requests : q < r => req[q].pc # "idle"
    /\ \E i \in RequestInputs :
         IF i[1] = NoHost
         THEN /\ req' = [ req EXCEPT ![r].pc = "panicked", ![r].uri = i[2] ]
              /\ UNCHANGED thread_ids_lock
         ELSE /\ req' = [ req EXCEPT ![r].pc = "tid_read", ![r].host = i[1],
                                     ![r].uri = i[2], ![r].len = 1 ]
              /\ thread_ids_lock' = Enqueue(thread_ids_lock, ReqProc(r), "read")
    /\ UNCHANGED << thread_ids, deployments, deployments_lock, ISOLATES,
                    ISOLATES_lock, constructed, dispatch, metrics, sub,
                    evicted >>

\* thread_ids.read().await is served; a bound hostname yields its index and
\* the shared view stays held; an unbound one draws an index, drops the
\* shared view and asks for exclusive access.
LookupThread(r) ==
    /\ req[r].pc = "tid_read"
    /\ CanGrant(thread_ids_lock, ReqProc(r))
    /\ IF Bound(thread_ids, req[r].host)
       THEN /\ req' = [ req EXCEPT
                          ![r].pc = "spawn",
                          ![r].thread_id = BoundIndex(thread_ids, req[r].host) ]
            /\ thread_ids_lock' = Grant(thread_ids_lock)
       ELSE \E id \in DrawThreadIndex :
            /\ req' = [ req EXCEPT ![r].pc = "tid_write", ![r].thread_id = id,
                                   ![r].drew = TRUE ]
            /\ thread_ids_lock' =
                 Enqueue(DropReader(Grant(thread_ids_lock), ReqProc(r)),
                         ReqProc(r), "write")
    /\ UNCHANGED << thread_ids, deployments, deployments_lock, ISOLATES,
                    ISOLATES_lock, constructed, dispatch, metrics, sub,
                    evicted >>

\* thread_ids.write().await.insert(hostname.clone(), id): the temporary
\* guard is dropped at the end of the statement.
InsertThread(r) ==
    /\ req[r].pc = "tid_write"
    /\ CanGrant(thread_ids_lock, ReqProc(r))
    /\ thread_ids' = InsertBinding(thread_ids, req[r].host, req[r].thread_id)
    /\ thread_ids_lock' = Release(Grant(thread_ids_lock), ReqProc(r))
    /\ req' = [ req EXCEPT ![r].pc = "spawn" ]
    /\ UNCHANGED << deployments, deployments_lock, ISOLATES, ISOLATES_lock,
                    constructed, dispatch, metrics, sub, evicted >>

RequestTask(r) == [ kind |-> "request", id |-> r, hostname |-> req[r].host ]

\* Variant of PinnedIndex: every task is posted to the first worker thread.
PinnedFirst(r) == 0

\* The index handed to spawn_pinned_by_idx: the local thread_id.
PinnedIndex(r) == req[r].thread_id

\* The index under which the task looks into ISOLATES: the thread_id the
\* closure captured.
TableIndex(r) == req[r].thread_id

\* history: the requests for the same hostname whose task was posted to
\* worker thread t before that of r.
PostedBefore(r, t) ==
    { q \in Requests \ {r} :
        /\ req[q].host = req[r].host
        /\ req[q].pc \in {"queued", "dep_read", "iso_write", "running",
                          "joined", "done", "panicked"}
        /\ req[q].host # NoHost
        /\ PinnedIndex(q) = t }

\* pool.spawn_pinned_by_idx(.., thread_id): the task is posted to the
\* worker thread of that index.
SpawnPinned(r) ==
    /\ req[r].pc = "spawn"
    /\ dispatch' = [ dispatch EXCEPT
                       ![PinnedIndex(r)] = PostTask(@, RequestTask(r)) ]
    /\ req' = [ req EXCEPT ![r].pc = "queued",
                           ![r].after = PostedBefore(r, PinnedIndex(r)) ]
    /\ UNCHANGED << thread_ids, thread_ids_lock, deployments,
                    deployments_lock, ISOLATES, ISOLATES_lock, constructed,
                    metrics, sub, evicted >>

\* The worker thread starts the task: deployments.read().await.
TaskStart(r) ==
    /\ req[r].pc = "queued"
    /\ \E t \in ThreadIndexes :
         /\ dispatch[t] # <<>>
         /\ Head(dispatch[t]) = RequestTask(r)
         /\ dispatch' = [ dispatch EXCEPT ![t] = Tail(@) ]
         /\ req' = [ req EXCEPT ![r].pc = "dep_read", ![r].worker = t ]
    /\ deployments_lock' = Enqueue(deployments_lock, ReqProc(r), "read")
    /\ UNCHANGED << thread_ids, thread_ids_lock, deployments, ISOLATES,
                    ISOLATES_lock, constructed, metrics, sub,
                    evicted >>

AssetError == [ kind |-> "Error", message |-> <<"Could not retrieve asset.">> ]

\* The shared view of the Catalog is served and the hostname looked up:
\* NotFound, or the metrics of the request and then the asset handler, or
\* ISOLATES.write().await with the shared view still held.
ReadCatalog(r) ==
    LET h   == req[r].host
        hit == h \in DOMAIN deployments
        d   == IF hit THEN deployments[h] ELSE NoDeployment
        url == StripLeading(req[r].uri)
        lbl == Labels(d)
        p   == ReqProc(r)
    IN
    /\ req[r].pc = "dep_read"
    /\ CanGrant(deployments_lock, p)
    /\ metrics' = MetricsAfterLookup(metrics, hit, lbl, req[r].len)
    /\ IF ~hit
       THEN /\ req' = [ req EXCEPT ![r].pc = "joined", ![r].result = NotFound,
                                   ![r].found = "miss",
                                   ![r].counted =
                                      IF metrics'.lagon_requests = metrics.lagon_requests
                                      THEN @ ELSE @ + 1 ]
            /\ deployments_lock' = Release(Grant(deployments_lock), p)
            /\ UNCHANGED ISOLATES_lock
       ELSE IF AssetMatch(d, url)
       THEN /\ \E ok \in BOOLEAN :
                 req' = [ req EXCEPT
                            ![r].pc = "joined",
                            ![r].deployment = d,
                            ![r].found = "asset",
                            ![r].counted = @ + 1,
                            ![r].result =
                               IF ok
                               THEN [ kind     |-> "Response",
                                      response |-> AssetResponse(d, url) ]
                               ELSE AssetError ]
            /\ deployments_lock' = Release(Grant(deployments_lock), p)
            /\ UNCHANGED ISOLATES_lock
       ELSE /\ req' = [ req EXCEPT ![r].pc = "iso_write",
                                   ![r].deployment = d,
                                   ![r].found = "isolate",
                                   ![r].counted = @ + 1 ]
            /\ deployments_lock' = Grant(deployments_lock)
            /\ ISOLATES_lock' = Enqueue(ISOLATES_lock, p, "write")
    /\ UNCHANGED << thread_ids, thread_ids_lock, deployments, ISOLATES,
                    constructed, dispatch, sub, evicted >>

\* The guards a task drops when it ends, normally or by unwinding.
TaskEnds(r) ==
    /\ ISOLATES_lock' = Release(ISOLATES_lock, ReqProc(r))
    /\ deployments_lock' = Release(deployments_lock, ReqProc(r))

\* Exclusive access to ISOLATES is served: the isolate of (thread_id,
\* hostname) is taken from the table or built from the deployment, whose
\* code is loaded with unwrap(); then isolate.run(request) begins.
AcquireIsolate(r) ==
    LET t == TableIndex(r)
        h == req[r].host
        d == req[r].deployment
        p == ReqProc(r)
        \* history: the requests that reached the isolate of (t, h) before
        \* this one and since its last eviction
        earlier == { q \in Requests \ {r} :
                       /\ req[q].thread_id = t
                       /\ req[q].host = h
                       /\ req[q].epoch = evicted[<<t, h>>]
                       /\ req[q].ran # 0 \/ req[q].loadfail }
        reached == [ req EXCEPT ![r].epoch = evicted[<<t, h>>],
                                ![r].earlier = earlier ]
    IN
    /\ req[r].pc = "iso_write"
    /\ CanGrant(ISOLATES_lock, p)
    /\ IF ~IsVacant(ISOLATES.entries, t, h)
       THEN /\ ISOLATES' = [ ISOLATES EXCEPT !.keys = WithThread(@, t) ]
            /\ ISOLATES_lock' = Grant(ISOLATES_lock)
            /\ req' = [ reached EXCEPT
                          ![r].pc = "running",
                          ![r].ran = IsolateOf(ISOLATES.entries, t, h).id ]
            /\ UNCHANGED << constructed, deployments_lock >>
       ELSE \E loaded \in BOOLEAN :
            IF loaded
            THEN LET new == [ id |-> constructed + 1,
                              options |-> IsolateOptions(d) ]
                 IN
                 /\ constructed' = constructed + 1
                 /\ ISOLATES' =
                      [ keys    |-> WithThread(ISOLATES.keys, t),
                        entries |-> InsertIsolate(ISOLATES.entries, t, h, new) ]
                 /\ ISOLATES_lock' = Grant(ISOLATES_lock)
                 /\ req' = [ reached EXCEPT
                               ![r].pc = "running",
                               ![r].built = new.id,
                               ![r].ran = new.id ]
                 /\ UNCHANGED deployments_lock
            ELSE /\ ISOLATES' = [ ISOLATES EXCEPT !.keys = WithThread(@, t) ]
                 /\ ISOLATES_lock' = Release(Grant(ISOLATES_lock), p)
                 /\ deployments_lock' = Release(deployments_lock, p)
                 /\ req' = [ reached EXCEPT
                               ![r].pc = "joined",
                               ![r].result = JoinError,
                               ![r].loadfail = TRUE ]
                 /\ UNCHANGED constructed
    /\ UNCHANGED << thread_ids, thread_ids_lock, deployments, dispatch,
                    metrics, sub, evicted >>

\* isolate.run(request) returns: statistics and bytes-out are recorded, the
\* task ends and its guards are dropped.
RunDone(r) ==
    /\ req[r].pc = "running"
    /\ \E result \in RunResults, stats \in BOOLEAN :
         /\ metrics' = RecordRun(metrics, Labels(req[r].deployment), result, stats)
         /\ ISOLATES' = IsolatesAfterRun(ISOLATES, TableIndex(r), req[r].host,
                                         result)
         /\ req' = [ req EXCEPT ![r].pc = "joined", ![r].result = result ]
    /\ TaskEnds(r)
    /\ UNCHANGED << thread_ids, thread_ids_lock, deployments, constructed,
                    dispatch, sub, evicted >>

\* The handler resumes with the outcome of the task: .await.unwrap() panics
\* on a JoinError, otherwise the result is marshalled; the shared view of
\* the Affinity Map, when still held, is dropped as the handler ends.
Respond(r) ==
    /\ req[r].pc = "joined"
    /\ IF req[r].result.kind = "JoinError"
       THEN req' = [ req EXCEPT ![r].pc = "panicked" ]
       ELSE req' = [ req EXCEPT ![r].pc = "done",
                                ![r].response = Marshal(req[r].result) ]
    /\ thread_ids_lock' = Release(thread_ids_lock, ReqProc(r))
    /\ UNCHANGED << thread_ids, deployments, deployments_lock, ISOLATES,
                    ISOLATES_lock, constructed, dispatch, metrics, sub,
                    evicted >>

(* ------------------------- Catalog Subscriber ------------------------- *)

EvictTask(n, h) == [ kind |-> "evict", id |-> n, hostname |-> h ]

\* Eviction signal: a task posted to every worker thread.
PostEvictions(q, n, h) ==
    [ t \in ThreadIndexes |-> PostTask(q[t], EvictTask(n, h)) ]

\* A control message arrives for a hostname of the Catalog; the subscriber
\* asks for exclusive access to the Catalog.
SubReceive ==
    /\ sub.pc = "idle"
    /\ sub.events < MaxEvents
    /\ \E h \in DOMAIN deployments :
         \/ \E f \in IsolateFields :
              sub' = [ pc |-> "dep_write", kind |-> "Update", hostname |-> h,
                       field |-> f, events |-> sub.events + 1 ]
         \/ sub' = [ pc |-> "dep_write", kind |-> "Delete", hostname |-> h,
                     field |-> "none", events |-> sub.events + 1 ]
    /\ deployments_lock' = Enqueue(deployments_lock, SubProc, "write")
    /\ UNCHANGED << thread_ids, thread_ids_lock, deployments, ISOLATES,
                    ISOLATES_lock, constructed, dispatch, req, metrics,
                    evicted >>

\* Update: the new descriptor replaces the entry and eviction is signalled.
SubUpdate ==
    /\ sub.pc = "dep_write"
    /\ sub.kind = "Update"
    /\ CanGrant(deployments_lock, SubProc)
    /\ deployments' =
         [ deployments EXCEPT
             ![sub.hostname] = UpdatedDeployment(@, sub.field, sub.events) ]
    /\ deployments_lock' = Release(Grant(deployments_lock), SubProc)
    /\ dispatch' = PostEvictions(dispatch, sub.events, sub.hostname)
    /\ sub' = [ IdleSubscriber EXCEPT !.events = sub.events ]
    /\ UNCHANGED << thread_ids, thread_ids_lock, ISOLATES, ISOLATES_lock,
                    constructed, req, metrics, evicted >>

\* Delete: the hostname leaves the Catalog; its Affinity binding is next.
SubDelete ==
    /\ sub.pc = "dep_write"
    /\ sub.kind = "Delete"
    /\ CanGrant(deployments_lock, SubProc)
    /\ deployments' =
         [ h \in DOMAIN deployments \ {sub.hostname} |-> deployments[h] ]
    /\ deployments_lock' = Release(Grant(deployments_lock), SubProc)
    /\ thread_ids_lock' = Enqueue(thread_ids_lock, SubProc, "write")
    /\ sub' = [ sub EXCEPT !.pc = "tid_write" ]
    /\ UNCHANGED << thread_ids, ISOLATES, ISOLATES_lock, constructed,
                    dispatch, req, metrics, evicted >>

\* Delete, continued: the Affinity binding of the hostname is removed and
\* eviction is signalled.
SubUnbind ==
    /\ sub.pc = "tid_write"
    /\ CanGrant(thread_ids_lock, SubProc)
    /\ thread_ids' = { e \in thread_ids : e[1] # sub.hostname }
    /\ thread_ids_lock' = Release(Grant(thread_ids_lock), SubProc)
    /\ dispatch' = PostEvictions(dispatch, sub.events, sub.hostname)
    /\ sub' = [ IdleSubscriber EXCEPT !.events = sub.events ]
    /\ UNCHANGED << deployments, deployments_lock, ISOLATES, ISOLATES_lock,
                    constructed, req, metrics, evicted >>

\* evict(hostname) on the owning thread: the worker thread starts the
\* eviction task at the head of its queue once the isolate table is free,
\* and the task drops the entry of the hostname if present.
Evict(t) ==
    /\ dispatch[t] # <<>>
    /\ Head(dispatch[t]).kind = "evict"
    /\ LET e == Head(dispatch[t])
           p == EvictProc(e.id, t)
       IN
       /\ CanGrant(Enqueue(ISOLATES_lock, p, "write"), p)
       /\ ISOLATES' =
            [ ISOLATES EXCEPT
                !.entries = { x \in @ : ~(x.thread = t
                                           /\ x.hostname = e.hostname) } ]
       /\ evicted' = [ evicted EXCEPT ![<<t, e.hostname>>] = @ + 1 ]
    /\ dispatch' = [ dispatch EXCEPT ![t] = Tail(@) ]
    /\ UNCHANGED << thread_ids, thread_ids_lock, deployments,
                    deployments_lock, ISOLATES_lock, constructed, req,
                    metrics, sub >>

(* --------------------------- specification ---------------------------- *)

RequestStep ==
    \E r \in Requests :
      \/ Receive(r)
      \/ LookupThread(r)
      \/ InsertThread(r)
      \/ SpawnPinned(r)
      \/ TaskStart(r)
      \/ ReadCatalog(r)
      \/ AcquireIsolate(r)
      \/ RunDone(r)
      \/ Respond(r)

SubscriberStep ==
    \/ SubReceive
    \/ SubUpdate
    \/ SubDelete
    \/ SubUnbind

EvictionStep == \E t \in ThreadIndexes : Evict(t)

Next == RequestStep \/ SubscriberStep \/ EvictionStep

Spec == Init /\ [][Next]_vars

\* The steps of the handler of request r once the request has arrived: the
\* runtime polls every task that can go on, isolate runs and asset fetches
\* return.
HandlerStep(r) ==
    \/ LookupThread(r)
    \/ InsertThread(r)
    \/ SpawnPinned(r)
    \/ TaskStart(r)
    \/ ReadCatalog(r)
    \/ AcquireIsolate(r)
    \/ RunDone(r)
    \/ Respond(r)

\* The steps of the subscriber once a control message has arrived.
SubscriberWork == SubUpdate \/ SubDelete \/ SubUnbind

\* The work at hand: a step of some task that has been started.
Work == (\E r \in Requests : HandlerStep(r)) \/ SubscriberWork \/ EvictionStep

\* The dispatcher under a fair scheduler: the runtime does not stop while a
\* task can go on. This is the least the tokio scheduler guarantees (it
\* polls every woken task); the arrival of requests and of control messages
\* is not forced.
FairSpec == Spec /\ WF_vars(Work)

(* ------------------------------ claims -------------------------------- *)

\* A request has taken the step of the handler that leaves position `from`.
Leaves(r, from) == req[r].pc = from /\ req'[r].pc # from

IndexesOf(m, h) == { e[2] : e \in { x \in m : x[1] = h } }

\* C1: the Affinity Map holds at most one thread index per hostname, and
\* the index of a bound hostname that stays in the Catalog is never changed
\* by any step.
C1_AffinityStable ==
    /\ [](\A h \in RequestHosts : Cardinality(IndexesOf(thread_ids, h)) <= 1)
    /\ [][ \A h \in Hostnames :
             ( /\ Bound(thread_ids, h)
               /\ h \in DOMAIN deployments
               /\ h \in DOMAIN deployments' )
             => IndexesOf(thread_ids', h) = IndexesOf(thread_ids, h) ]_vars

\* C2: a request that drew an index for an unbound hostname and finds, when
\* it commits, that another first request has committed a binding meanwhile,
\* leaves the map as it is and is dispatched to the index already bound.
C2_FirstCommittedWins ==
    [][ \A r \in Requests :
          ( Leaves(r, "tid_write") /\ Bound(thread_ids, req[r].host) )
          => /\ thread_ids' = thread_ids
             /\ req'[r].thread_id = BoundIndex(thread_ids, req[r].host) ]_vars

\* C3: an isolate that is being run for a hostname was constructed from the
\* descriptor the Catalog holds for that hostname: after an Update no
\* request runs the isolate built from the replaced descriptor.
C3_RunsCurrentDescriptor ==
    \A r \in Requests :
      req[r].pc = "running"
      => \E e \in ISOLATES.entries :
           /\ e.thread = req[r].thread_id
           /\ e.hostname = req[r].host
           /\ e.isolate.id = req[r].ran
           /\ e.isolate.options = IsolateOptions(deployments[req[r].host])

\* C4: the response of a finished request is the one the table gives for
\* its RunResult, and every RunResult has a response.
C4_Marshalling ==
    \A r \in Requests :
      req[r].pc = "done"
      => LET res == req[r].result
             rsp == req[r].response
         IN
         /\ res.kind \in {"Response", "Error", "Timeout", "MemoryLimit", "NotFound"}
         /\ res.kind = "Response"
              => rsp.status = res.response.status /\ rsp.body = res.response.body
         /\ res.kind = "Error"
              => rsp.status = 500 /\ rsp.body = res.message
         /\ res.kind = "Timeout"
              => rsp.status = 200 /\ rsp.body = <<"Timeouted">>
         /\ res.kind = "MemoryLimit"
              => rsp.status = 200 /\ rsp.body = <<"MemoryLimited">>
         /\ res.kind = "NotFound"
              => rsp.status = 404 /\ rsp.body = <<"Deployment not found">>

C4_Witness ==
    \E r, q \in Requests :
      /\ req[r].pc = "done" /\ req[r].result.kind = "Timeout"
      /\ req[q].pc = "done" /\ req[q].result.kind = "Response"

\* C5: the lookup of a hostname that is not a key of the Catalog yields
\* NotFound and changes no metric and no isolate; such a request never
\* builds or runs an isolate and is answered 404 "Deployment not found".
C5_UnknownHostname ==
    /\ [][ \A r \in Requests :
             ( Leaves(r, "dep_read") /\ req[r].host \notin DOMAIN deployments )
             => /\ req'[r].pc = "joined"
                /\ req'[r].result.kind = "NotFound"
                /\ metrics' = metrics
                /\ ISOLATES' = ISOLATES
                /\ constructed' = constructed ]_vars
    /\ [](\A r \in Requests :
            req[r].result.kind = "NotFound"
            => /\ req[r].pc \in {"joined", "done"}
               /\ req[r].counted = 0 /\ req[r].built = 0 /\ req[r].ran = 0
               /\ req[r].pc = "done"
                    => /\ req[r].response.status = 404
                       /\ req[r].response.body = <<"Deployment not found">>)

C5_Witness ==
    \E r \in Requests :
      /\ req[r].pc = "done"
      /\ req[r].host = UnknownHost
      /\ req[r].result.kind = "NotFound"

\* C6: a request without a Host header is answered 400, without a panic,
\* without a change of the Affinity Map and without a task being dispatched.
C6_MissingHost ==
    \A r \in Requests :
      ( req[r].pc # "idle" /\ req[r].host = NoHost )
      => /\ req[r].pc = "done"
         /\ req[r].response.status = 400

\* C7: the lookup step of a request whose stripped target equals an asset
\* of the resolved deployment yields Response(the asset handler's bytes) or
\* Error("Could not retrieve asset."), ends the task and leaves the isolate
\* table, its lock and the construction counter as they were; such a request
\* never builds or runs an isolate.
C7_AssetPath ==
    /\ [][ \A r \in Requests :
             ( /\ Leaves(r, "dep_read")
               /\ req[r].host \in DOMAIN deployments
               /\ Tail(req[r].uri) \in deployments[req[r].host].assets )
             => LET d == deployments[req[r].host] IN
                /\ req'[r].pc = "joined"
                /\ \/ /\ req'[r].result.kind = "Response"
                      /\ req'[r].result.response =
                           [ status |-> 200,
                             body   |-> <<"asset", d.id, Tail(req[r].uri)>> ]
                   \/ /\ req'[r].result.kind = "Error"
                      /\ req'[r].result.message = <<"Could not retrieve asset.">>
                /\ ISOLATES' = ISOLATES
                /\ ISOLATES_lock' = ISOLATES_lock
                /\ constructed' = constructed ]_vars
    /\ [](\A r \in Requests :
            req[r].found = "asset" => req[r].built = 0 /\ req[r].ran = 0)

C7_Witness ==
    \E r, q \in Requests :
      /\ req[r].found = "asset" /\ req[r].pc = "done"
      /\ req[r].result.kind = "Response"
      /\ req[q].found = "asset" /\ req[q].pc = "done"
      /\ req[q].result.kind = "Error"

\* The requests that reached the isolate of the same thread and hostname as
\* r with no eviction of it in between.
SameIsolateSlot(r, q) ==
    /\ req[q].thread_id = req[r].thread_id
    /\ req[q].host = req[r].host
    /\ req[q].epoch = req[r].epoch

Reached(r) == req[r].ran # 0 \/ req[r].loadfail

\* C8 as stated: of the requests that reach the isolate of (T, H) with no
\* eviction in between, the first constructs it and every one runs on that
\* same instance.
C8_FirstConstructs ==
    \A r \in Requests :
      req[r].built # 0
      => /\ req[r].earlier = {}
         /\ \A q \in Requests :
              (Reached(q) /\ SameIsolateSlot(r, q)) => req[q].ran = req[r].ran

\* C8 as amended: the isolate of (T, H) is constructed exactly once between
\* evictions, by the first request whose code load succeeds; every request
\* that gets to run runs on that instance; a request whose code load fails
\* constructs and runs nothing.
C8_GetOrCreate ==
    \A r \in Requests :
      /\ req[r].loadfail => req[r].ran = 0 /\ req[r].built = 0
      /\ req[r].ran # 0
         => /\ req[r].built # 0 <=> (\A q \in req[r].earlier : req[q].loadfail)
            /\ req[r].built # 0 => req[r].ran = req[r].built
            /\ \A q \in Requests :
                 (req[q].ran # 0 /\ SameIsolateSlot(r, q))
                 => /\ req[q].ran = req[r].ran
                    /\ (q # r /\ req[q].built # 0) => req[r].built = 0

\* Two requests have run on the isolate one of them built, and a third
\* party is not needed: the other found it in the table.
C8_Witness ==
    \E r, q \in Requests :
      /\ r # q
      /\ SameIsolateSlot(r, q)
      /\ req[r].built # 0
      /\ req[q].pc = "done" /\ req[q].built = 0
      /\ req[q].ran = req[r].built

\* C9: the isolate table holds at most one isolate per thread index and
\* hostname, and every thread index that keys it lies in [0, POOL_SIZE).
C9_IsolateTable ==
    /\ \A e1, e2 \in ISOLATES.entries :
         (e1.thread = e2.thread /\ e1.hostname = e2.hostname) => e1 = e2
    /\ \A e \in ISOLATES.entries : e.thread \in ISOLATES.keys
    /\ \A t \in ISOLATES.keys : 0 <= t /\ t < POOL_SIZE

C9_Witness ==
    /\ Cardinality(ISOLATES.keys) = POOL_SIZE
    /\ \E e1, e2 \in ISOLATES.entries :
         e1.hostname = e2.hostname /\ e1.thread # e2.thread

\* C10: a failed code load is answered with an error response and no panic,
\* leaves no isolate for the hostname in the thread's cache, and a later
\* request attempts the creation again.
C10_LoadFailure ==
    \A r \in Requests :
      req[r].loadfail
      => /\ req[r].pc \in {"joined", "done"}
         /\ req[r].pc = "done" => req[r].response.status = 500

\* The outcomes of a request that are failures: a run that ends in Timeout,
\* MemoryLimit or Error, NotFound, and an asset that could not be fetched.
FailedOutcome(result) ==
    result.kind \in {"Timeout", "MemoryLimit", "Error", "NotFound"}

\* C11: a request that ends in Timeout, MemoryLimit, Error, NotFound or an
\* asset failure removes no entry from the isolate table on any of its
\* steps, and the next request that reaches the isolate of the same thread
\* and hostname, no eviction in between, runs on the instance that served
\* the failed request and constructs nothing.
C11_FailureKeepsIsolate ==
    /\ [][ \A r \in Requests :
             ( /\ req[r].pc # req'[r].pc
               /\ \/ FailedOutcome(req'[r].result)
                  \/ FailedOutcome(req[r].result) )
             => /\ ISOLATES.entries \subseteq ISOLATES'.entries
                /\ Leaves(r, "running")
                   => \E e \in ISOLATES'.entries :
                        /\ e.thread = req[r].thread_id
                        /\ e.hostname = req[r].host
                        /\ e.isolate.id = req[r].ran ]_vars
    /\ [](\A r, q \in Requests :
            ( /\ req[r].ran # 0
              /\ FailedOutcome(req[r].result)
              /\ r \in req[q].earlier
              /\ SameIsolateSlot(r, q)
              /\ req[q].ran # 0 )
            => req[q].ran = req[r].ran /\ req[q].built = 0)

\* A run that failed was followed by a run of another request on the same
\* isolate.
C11_Witness ==
    \E r, q \in Requests :
      /\ req[r].ran # 0
      /\ req[r].result.kind \in {"Timeout", "MemoryLimit", "Error"}
      /\ r \in req[q].earlier
      /\ SameIsolateSlot(r, q)
      /\ req[q].pc = "done"
      /\ req[q].ran = req[r].ran

\* C12: a request whose hostname resolves to a deployment D increments
\* lagon_requests exactly once, labelled with D.id and D.function_id, on
\* whichever path it goes on to take, and no other step increments it;
\* lagon_bytes_out is incremented only by the step on which an isolate run
\* returns a Response.
C12_RequestCounted ==
    /\ [][ /\ \A r \in Requests :
                ( /\ Leaves(r, "dep_read")
                  /\ req[r].host \in DOMAIN deployments )
                => metrics'.lagon_requests =
                     metrics.lagon_requests
                       (+) SetToBag({[ deployment |->
                                         deployments[req[r].host].id,
                                       function |->
                                         deployments[req[r].host].function_id ]})
           /\ ( ~ \E r \in Requests :
                    /\ Leaves(r, "dep_read")
                    /\ req[r].host \in DOMAIN deployments )
              => metrics'.lagon_requests = metrics.lagon_requests
           /\ metrics'.lagon_bytes_out # metrics.lagon_bytes_out
              => \E r \in Requests :
                   /\ Leaves(r, "running")
                   /\ req'[r].result.kind = "Response" ]_vars
    /\ [](\A r \in Requests :
            /\ req[r].found \in {"asset", "isolate"} => req[r].counted = 1
            /\ req[r].found \in {"none", "miss"} => req[r].counted = 0)

\* One request was served an asset and another ran to an outcome that is
\* not a Response, both counted; bytes-out holds nothing.
C12_Witness ==
    \E r, q \in Requests :
      /\ req[r].found = "asset" /\ req[r].pc = "done"
      /\ req[q].found = "isolate" /\ req[q].pc = "done"
      /\ req[q].result.kind # "Response"
      /\ BagCardinality(metrics.lagon_requests) = 2
      /\ metrics.lagon_bytes_out = EmptyBag

\* The removal of hostname h from the Catalog has been processed: the
\* subscriber is done with the event and no eviction of h is still posted.
RemovalProcessed(h) ==
    /\ h \notin DOMAIN deployments
    /\ sub.pc = "idle"
    /\ \A t \in ThreadIndexes :
         \A i \in 1..Len(dispatch[t]) :
           ~(dispatch[t][i].kind = "evict" /\ dispatch[t][i].hostname = h)

\* C13: once the removal of a hostname from the Catalog has been processed,
\* the Affinity Map has no entry for it and no worker thread caches an
\* isolate for it.
C13_RemovedHostnameUnbound ==
    \A h \in Hostnames :
      RemovalProcessed(h)
      => /\ ~Bound(thread_ids, h)
         /\ \A e \in ISOLATES.entries : e.hostname # h

\* C14: an isolate stored under thread index T is constructed and run only
\* by a task executing on worker thread T, and an entry stored under T is
\* removed only by a task started on worker thread T.
C14_ThreadPinning ==
    /\ [](\A r \in Requests :
            /\ req[r].pc = "running"
               => \E e \in ISOLATES.entries :
                    /\ e.isolate.id = req[r].ran
                    /\ e.hostname = req[r].host
                    /\ e.thread = req[r].worker
            /\ \A e \in ISOLATES.entries :
                 e.isolate.id = req[r].built => e.thread = req[r].worker)
    /\ [][ /\ \A r \in Requests :
                Leaves(r, "iso_write")
                => /\ \A e \in ISOLATES'.entries \ ISOLATES.entries :
                        e.thread = req[r].worker
                   /\ ISOLATES.entries \subseteq ISOLATES'.entries
           /\ \A e \in ISOLATES.entries \ ISOLATES'.entries :
                /\ dispatch[e.thread] # <<>>
                /\ Head(dispatch[e.thread]).kind = "evict"
                /\ dispatch'[e.thread] = Tail(dispatch[e.thread]) ]_vars

\* Tasks on two worker threads have each built and run an isolate.
C14_Witness ==
    \E r, q \in Requests :
      /\ req[r].worker # req[q].worker
      /\ req[r].built # 0 /\ req[r].pc = "done"
      /\ req[q].built # 0 /\ req[q].pc = "done"
      /\ \E e1, e2 \in ISOLATES.entries :
           /\ e1.isolate.id = req[r].built /\ e1.thread = req[r].worker
           /\ e2.isolate.id = req[q].built /\ e2.thread = req[q].worker

TaskEnded(r) == req[r].pc \in {"joined", "done", "panicked"}

\* C16: requests for the same hostname dispatched to the same worker thread
\* are run by the isolate one at a time and in the order of their dispatch:
\* when a request has started its isolate run, every request for that
\* hostname dispatched to that thread before it has ended its task.
C16_RunsInDispatchOrder ==
    /\ \A r \in Requests :
         req[r].pc = "running"
         => \A q \in req[r].after : TaskEnded(q)
    /\ \A r, q \in Requests :
         ( /\ r # q
           /\ req[r].pc = "running" /\ req[q].pc = "running" )
         => ~(req[r].host = req[q].host /\ req[r].worker = req[q].worker)

\* Two requests for one hostname were dispatched to one thread and both ran
\* on the isolate path, the earlier one having ended when the later runs.
C16_Witness ==
    \E r, q \in Requests :
      /\ q \in req[r].after
      /\ req[q].worker = req[r].worker
      /\ req[q].ran # 0 /\ req[q].pc = "done"
      /\ req[r].pc = "running"

\* The worker threads that cache an isolate for hostname h.
ThreadsCaching(h) ==
    { e.thread : e \in { x \in ISOLATES.entries : x.hostname = h } }

\* C17: a hostname of the Catalog has a cached isolate under at most one
\* thread index, and that index is its Affinity binding.
C17_OneCacheAtBinding ==
    \A h \in Hostnames :
      h \in DOMAIN deployments
      => /\ Cardinality(ThreadsCaching(h)) <= 1
         /\ ThreadsCaching(h) \subseteq IndexesOf(thread_ids, h)

\* Request r is not in flight: it has not arrived, it has been answered, or
\* its handler panicked for want of a Host header or of loadable code.
Settled(r) ==
    \/ req[r].pc = "idle"
    \/ req[r].pc = "done"
    \/ req[r].pc = "panicked" /\ (req[r].host = NoHost \/ req[r].loadfail)

\* Nobody holds or waits for the lock.
Idle(l) == l = FreeLock

\* C18: under a fair scheduler the dispatcher keeps coming to rest: every
\* request that arrived with a Host header and loadable code has produced
\* its HTTP response, the subscriber is done with its control message, and
\* nobody waits for any of the three locks. As a request never goes back
\* and a waiter leaves a queue only by being served, every request is
\* eventually answered and every waiting writer eventually served.
C18_EveryRequestAnswered ==
    []<>( /\ \A r \in Requests : Settled(r)
          /\ sub.pc = "idle"
          /\ Idle(thread_ids_lock)
          /\ Idle(deployments_lock)
          /\ Idle(ISOLATES_lock) )

\* The subscriber waits for exclusive access to the Catalog behind the
\* shared view of a request inside its isolate run, and a second request
\* waits for exclusive access to the isolate table.
C18_Witness ==
    \E r, q \in Requests :
      /\ req[q].pc = "running"
      /\ ReqProc(q) \in deployments_lock.readers
      /\ sub.pc = "dep_write"
      /\ req[r].pc = "iso_write"

\* Request r found its hostname bound and has not yet produced its response.
InFlightBound(r) ==
    /\ ~req[r].drew
    /\ req[r].pc \in {"spawn", "queued", "dep_read", "iso_write", "running",
                      "joined"}

\* The process waits in the queue of the lock for the given mode.
Waits(l, p, mode) ==
    \E i \in 1..Len(l.queue) : l.queue[i] = [ p |-> p, mode |-> mode ]

UsesDescriptor(r) == req[r].pc \in {"iso_write", "running"}

\* C20: from its Catalog lookup until its isolate run has ended a task holds
\* the shared view of the Catalog, no write to the Catalog takes effect in
\* that span, the descriptor it works with is the one read at the lookup
\* and still the entry of the Catalog, and an isolate it creates is built
\* from that entry.
C20_CatalogViewHeld ==
    /\ [](\A r \in Requests :
            UsesDescriptor(r)
            => /\ ReqProc(r) \in deployments_lock.readers
               /\ req[r].host \in DOMAIN deployments
               /\ req[r].deployment = deployments[req[r].host])
    /\ [][ /\ deployments' # deployments
              => \A r \in Requests : ~UsesDescriptor(r)
           /\ \A r \in Requests :
                /\ ( Leaves(r, "dep_read")
                     /\ req[r].host \in DOMAIN deployments )
                   => req'[r].deployment = deployments[req[r].host]
                /\ ( Leaves(r, "iso_write") /\ req'[r].built # 0 )
                   => \E e \in ISOLATES'.entries \ ISOLATES.entries :
                        /\ e.isolate.id = req'[r].built
                        /\ e.isolate.options =
                             IsolateOptions(deployments[req[r].host]) ]_vars

\* A request has built its isolate and is inside its run while the
\* subscriber waits at the head of the Catalog's queue for exclusive access.
C20_Witness ==
    \E r \in Requests :
      /\ req[r].pc = "running"
      /\ req[r].built # 0
      /\ deployments_lock.queue # <<>>
      /\ Head(deployments_lock.queue) = [ p |-> SubProc, mode |-> "write" ]

=============================================================================
